---- MODULE Spec2Model ----
(***************************************************************************)
(* Model of the AI engine of the incident-resolution platform:             *)
(*   - analyze_incident            (ai-engine/api/ai_engine_main.py)       *)
(*   - RCAAgent.analyze            (ai-engine/llm/rca_agent.py)            *)
(*   - VectorSearch                (ai-engine/vector-db/faiss_index.py)    *)
(*   - execute_remediation         (ai-engine/api/ai_engine_main.py)       *)
(*   - AnomalyPredictor            (ai-engine/llm/anamoly detection/       *)
(*                                  anomaly_detection.py)                  *)
(* FixGenerator (llm/fix_generator.py) is imported by the API module but   *)
(* its source is not part of the tree; it is modelled from its contract.   *)
(*                                                                         *)
(* Conventions                                                             *)
(*   - confidence values are floats in the program; the model keeps them   *)
(*     as integers in hundredths (0.9 is 90, 1.5 is 150, 0.0 is 0).        *)
(*   - timestamps are small naturals.                                      *)
(*   - a JSON object / Python dict is a function whose DOMAIN is its key   *)
(*     set, so that a missing key is really missing.                       *)
(***************************************************************************)
EXTENDS Integers, Sequences, FiniteSets, TLC

(* ------------------------------ bounds --------------------------------- *)

\* number of analyze requests served in one behaviour
MaxRequests == 2

\* number of direct VectorSearch calls (query / store) in one behaviour
MaxIndexCalls == 3

\* largest number of entries of an index file found on disk at start-up
MaxIndex == 1

\* largest top_k tried by a direct similarity query (smallest is -1)
MaxTopK == 2

\* largest timestamp
MaxTime == 1

\* number of remediation requests served in one behaviour
MaxRemediations == 3

(* -------------------------- program constants -------------------------- *)

\* analyze_incident asks for the 3 nearest incidents
AnalyzeTopK == 3

\* analyze_incident embeds the first 10 log lines
EmbedLogLines == 10

\* RCAAgent._prepare_context keeps the last 50 log lines
ContextLogLines == 50

\* RCAAgent._prepare_context keeps the first 3 similar incidents
ContextSimilar == 3

\* RCAAgent._prepare_context keeps the first 10 trace records
ContextTraces == 10

(* ------------------------------ inputs --------------------------------- *)

IncidentIds == {"INC-1", "INC-2"}
Services == {"payment-service"}
Times == 0..MaxTime
LogLines == {"ERROR: Out of memory"}
LogSamples == {<<>>} \cup {<<line>> : line \in LogLines}
FixTypes == {"restart", "scale"}

RECURSIVE SeqsUpTo(_, _)
SeqsUpTo(S, n) ==
    IF n = 0 THEN {<<>>}
    ELSE LET shorter == SeqsUpTo(S, n - 1)
         IN  shorter \cup {Append(s, x) : s \in {t \in shorter : Len(t) = n - 1}, x \in S}

\* the metrics dict and the traces list of a request; traces = None is the
\* empty list, which _prepare_context treats alike
MetricsSamples == {[cpu_usage |-> 95, memory_usage |-> 92]}
TracesSamples == {<<>>}

Requests ==
    [incident_id : IncidentIds, service_name : Services,
     timestamp : Times, metrics : MetricsSamples, logs : LogSamples,
     traces : TracesSamples]

EmptyDict == [x \in {} |-> x]

\* values the reasoning service may put in each field of its reply
RootCauseVals == {"Memory leak"}
SeverityVals == {"high", "urgent"}
ConfidenceVals == {90, 150}

\* the four remaining fields of a reply, when it carries them
RestOfReply ==
    [impact_assessment |-> "Checkout unavailable",
     contributing_factors |-> <<"heap pressure">>,
     timeline |-> <<[time |-> "14:30", event |-> "OOM"]>>,
     recommendations |-> <<"raise memory limit">>]

\* an optional field: the empty set (key omitted) or a singleton (key present)
Opt(S) == {{}} \cup {{v} : v \in S}

Field(key, opt) == IF opt = {} THEN EmptyDict ELSE key :> (CHOOSE v \in opt : TRUE)

\* the JSON objects the reasoning service may reply with: root_cause,
\* severity and confidence are each omitted or present with a value of their
\* JSON type; the four remaining fields are omitted together or present
\* together
ReplyObjects ==
    { Field("root_cause", rc) @@ Field("severity", sv) @@ Field("confidence", cf) @@ rest :
        rc \in Opt(RootCauseVals), sv \in Opt(SeverityVals), cf \in Opt(ConfidenceVals),
        rest \in {EmptyDict, RestOfReply} }

\* outcome of client.chat.completions.create followed by json.loads:
\*   timeout / api_error : the call raises
\*   malformed           : the call returns text that json.loads rejects
\*   object              : the call returns text that json.loads turns into a dict
NoReply == [kind |-> "none"]
ReasoningOutcomes ==
    {[kind |-> k] : k \in {"timeout", "api_error", "malformed"}}
    \cup {[kind |-> "object", body |-> b] : b \in ReplyObjects}

(* ------------------------------- state --------------------------------- *)

VARIABLES
    pc,                \* stage of the analyze request in flight
    request,           \* IncidentAnalysisRequest being served
    numRequests,       \* analyze requests received so far
    similar_incidents, \* local of analyze_incident
    context,           \* local of RCAAgent.analyze
    prompt,            \* local of RCAAgent.analyze, until the create call
    llmRequest,        \* the chat.completions.create call whose response is awaited
                       \* or being parsed
    reply,             \* what the reasoning service did for this request
    llmCalls,          \* calls of client.chat.completions.create in this request
    rca_result,        \* local of analyze_incident
    fix_code,          \* local of analyze_incident
    timeline,          \* local of analyze_incident
    scheduled,         \* background_tasks of the request in flight
    response,          \* what the caller of analyze_incident got
    pendingTasks,      \* background tasks of returned responses, not yet run
    storeCalls,        \* completed store_incident calls, per incident_id
    index,             \* VectorSearch.index (the vectors it holds)
    metadata,          \* VectorSearch.metadata
    lastQuery,         \* last direct find_similar_incidents call and its result
    indexCalls,        \* direct VectorSearch calls so far
    fixCache,          \* FixGenerator: memo of apply_fix results
    sideEffects,       \* FixGenerator: executions of a fix, per key
    pullRequests,      \* FixGenerator: memo of proposal references
    remLog,            \* remediation requests answered, with their responses
    remErrors,         \* remediation requests that ended in HTTP 500
    metrics_data,      \* AnomalyPredictor: the metric samples being scored
    features,          \* AnomalyPredictor: the feature matrix of metrics_data
    scaler,            \* AnomalyPredictor.scaler
    model,             \* AnomalyPredictor.model
    savedModel,        \* the fit held by the model file and by the scaler file
                       \* at model_path (0: no file)
    predPc,            \* position of the predict call in flight
    used,              \* which scaler and model the predict call has read
    labels,            \* predictions of the predict call
    predRaised,        \* the exception predict raised, if any
    predResponse,      \* what the predict call gave its caller
    numPredicts,       \* predict calls started so far
    trainPc,           \* position of the train call in flight
    scriptPc,          \* position of train_anomaly_detector in its own process
    numTrains,         \* train calls started so far
    files,             \* the index file and the .meta file at index_path
    savePc,            \* position of the save_index call in flight
    loader,            \* a second VectorSearch being constructed from the files
    diskCalls,         \* save_index calls and constructions started so far
    ctxInput,          \* the arguments of RCAAgent.analyze calls on one incident
    handed             \* the contexts and prompts built from ctxInput so far

analyzeVars == <<pc, request, numRequests, similar_incidents, context, prompt, llmRequest,
                 reply, llmCalls,
                 rca_result, fix_code, timeline, scheduled, response>>
taskVars == <<pendingTasks, storeCalls>>
indexVars == <<index, metadata, lastQuery, indexCalls>>
remVars == <<fixCache, sideEffects, pullRequests, remLog, remErrors>>
anomalyVars == <<metrics_data, features, scaler, model, savedModel, predPc, used, labels,
                 predRaised, predResponse, numPredicts, trainPc, scriptPc, numTrains>>
diskVars == <<files, savePc, loader, diskCalls>>
promptVars == <<ctxInput, handed>>
extVars == <<anomalyVars, diskVars, promptVars>>
vars == <<analyzeVars, taskVars, indexVars, remVars, extVars>>

NoRequest == [incident_id |-> "none"]
NoResult == [kind |-> "none"]
NoResponse == [status |-> 0]

(* ---------------------------- VectorSearch ----------------------------- *)

\* vectors an index file may hold (abstract embeddings)
Vectors == {1}

\* metadata entries an index file may hold
MetaEntries == {[incident_id |-> "INC-OLD", root_cause |-> "Disk full"]}

\* what is at index_path when the process starts: nothing, or an index file
\* with its parallel .meta file
DiskImages ==
    {[exists |-> FALSE]}
    \cup {[exists |-> TRUE, index |-> ix, metadata |-> md] :
            ix \in SeqsUpTo(Vectors, MaxIndex),
            md \in SeqsUpTo(MetaEntries, MaxIndex)}

\* VectorSearch.__init__: load_index when the file exists, else a new empty
\* IndexFlatL2 and an empty metadata list
VectorSearchInit(disk) ==
    IF disk.exists
    THEN [index |-> disk.index, metadata |-> disk.metadata]
    ELSE [index |-> <<>>, metadata |-> <<>>]

\* VectorSearch.find_similar_incidents: the arguments and the index are not
\* read; one fixed match is returned (similarity 0.89 kept in hundredths)
FindSimilarIncidents(service, logs, top_k) ==
    << [incident_id |-> "INC-2024-100",
        root_cause |-> "Memory leak in service",
        similarity |-> 89] >>

\* VectorSearch.store_incident: the body is `pass`; index and metadata are
\* returned as they were
StoreIncident(ix, md, incident_id, data) == [index |-> ix, metadata |-> md]

(* ------------------------------ RCAAgent ------------------------------- *)

\* seq[:n]
FirstN(seq, n) == SubSeq(seq, 1, IF Len(seq) < n THEN Len(seq) ELSE n)

\* seq[-n:]
LastN(seq, n) == SubSeq(seq, (IF Len(seq) < n THEN 0 ELSE Len(seq) - n) + 1, Len(seq))

\* RCAAgent._prepare_context: the document is kept as its four sections, in
\* the order they are joined; a section the code leaves out (no traces, no
\* similar incidents) is the empty sequence
PrepareContext(metrics, logs, traces, similar) ==
    [metrics |-> metrics,
     logs |-> LastN(logs, ContextLogLines),
     traces |-> FirstN(traces, ContextTraces),
     similar |-> [i \in 1..Len(FirstN(similar, ContextSimilar)) |->
                    [incident_id |-> similar[i].incident_id,
                     root_cause |-> similar[i].root_cause]]]

\* RCAAgent._create_rca_prompt: the incident id, datetime.utcnow() read while
\* the prompt is built, and the context
CreateRcaPrompt(incident_id, ctx, now) ==
    [incident_id |-> incident_id, timestamp |-> now, context |-> ctx]

\* the keyword arguments of AzureOpenAI(...) in RCAAgent.__init__
ClientArgs ==
    [api_key |-> "AZURE_OPENAI_KEY", api_version |-> "2024-02-15-preview",
     azure_endpoint |-> "AZURE_OPENAI_ENDPOINT"]

\* the keyword arguments of client.chat.completions.create in RCAAgent.analyze
\* (temperature in hundredths)
CreateArgs(user_prompt) ==
    [model |-> "gpt-4",
     messages |-> <<[role |-> "system", content |-> "system prompt"],
                    [role |-> "user", content |-> user_prompt]>>,
     temperature |-> 20,
     max_tokens |-> 2000,
     response_format |-> [type |-> "json_object"]]

\* dict.get with a severity outside critical/high/medium/low replaced by the
\* default
GetSeverityChecked(d, key, default) ==
    IF key \in DOMAIN d
    THEN IF key = "severity" /\ d[key] \notin {"critical", "high", "medium", "low"}
         THEN default
         ELSE d[key]
    ELSE default

\* dict.get(key, default)
Get(d, key, default) == IF key \in DOMAIN d THEN d[key] ELSE default

\* the result dict with other defaults for severity and confidence
ParseResultOtherDefaults(result) ==
    [root_cause |-> Get(result, "root_cause", "Unknown"),
     severity |-> Get(result, "severity", "unknown"),
     confidence |-> Get(result, "confidence", 100),
     impact |-> Get(result, "impact_assessment", "Unknown impact"),
     contributing_factors |-> Get(result, "contributing_factors", <<>>),
     timeline |-> Get(result, "timeline", <<>>),
     recommendations |-> Get(result, "recommendations", <<>>)]

\* the dict RCAAgent.analyze returns for a parsed reply
ParseResult(result) ==
    [root_cause |-> Get(result, "root_cause", "Unknown"),
     severity |-> Get(result, "severity", "medium"),
     confidence |-> Get(result, "confidence", 0),
     impact |-> Get(result, "impact_assessment", "Unknown impact"),
     contributing_factors |-> Get(result, "contributing_factors", <<>>),
     timeline |-> Get(result, "timeline", <<>>),
     recommendations |-> Get(result, "recommendations", <<>>)]

(* ---------------------------- FixGenerator ----------------------------- *)

\* FixGenerator.generate_fix(root_cause, service_name, severity)
GenerateFix(root_cause, service_name, severity) ==
    [fix_details |-> [root_cause |-> root_cause, service |-> service_name,
                      severity |-> severity],
     code |-> <<"patch", service_name, root_cause>>]

(* -------------------------- analyze_incident --------------------------- *)

\* str(e) of the exception each stage may raise
LookupError == "similar-incident lookup failed"
TimeoutError == "Request timed out."
ApiError == "Connection error."
JsonError == "Expecting value: line 1 column 1 (char 0)"
FixError == "fix generation failed"

\* except Exception as e: raise HTTPException(500, f"Analysis failed: {str(e)}")
AnalysisFailed(message) ==
    [status |-> 500, error |-> "HTTPException",
     detail |-> <<"Analysis failed: ", message>>]

\* the task analyze_incident hands to background_tasks.add_task
StoreTask(req, rca) ==
    [incident_id |-> req.incident_id,
     data |-> [service |-> req.service_name, root_cause |-> rca.root_cause,
               logs |-> req.logs]]

\* IncidentAnalysisResponse(...)
AnalysisResponse(req, rca, fix, similar, tl) ==
    [status |-> 200,
     incident_id |-> req.incident_id,
     root_cause |-> rca.root_cause,
     severity |-> rca.severity,
     confidence |-> rca.confidence,
     impact_assessment |-> rca.impact,
     recommended_fix |-> fix.fix_details,
     generated_code |-> fix.code,
     similar_incidents |-> similar,
     timeline |-> tl]

\* the timeline list of analyze_incident; t1 and t2 are the two utcnow() reads
Timeline(req, t1, t2) ==
    << [time |-> req.timestamp, event |-> "Incident detected"],
       [time |-> t1, event |-> "RCA completed"],
       [time |-> t2, event |-> "Fix generated"] >>

Stages == {"IDLE", "RETRIEVING_SIMILAR", "BUILDING_CONTEXT", "REASONING", "VALIDATING",
           "GENERATING_FIX", "ASSEMBLING_TIMELINE", "PERSISTING", "RETURNING",
           "DONE", "FAILED"}

\* a new request is served once the previous one has been answered
ReceiveAnalyze(req) ==
    /\ pc \in {"IDLE", "DONE", "FAILED"}
    /\ numRequests < MaxRequests
    /\ numRequests' = numRequests + 1
    /\ request' = req
    /\ pc' = "RETRIEVING_SIMILAR"
    /\ similar_incidents' = <<>>
    /\ context' = NoResult
    /\ prompt' = NoResult
    /\ llmRequest' = NoResult
    /\ reply' = NoReply
    /\ llmCalls' = 0
    /\ rca_result' = NoResult
    /\ fix_code' = NoResult
    /\ timeline' = <<>>
    /\ scheduled' = <<>>
    /\ response' = NoResponse
    /\ UNCHANGED <<taskVars, indexVars, remVars, extVars>>

\* an except clause that answers the failed request as if it had completed
FailAsDone(message) ==
    /\ pc' = "DONE"
    /\ response' = AnalysisFailed(message)
    /\ scheduled' = <<>>

\* the except clause of analyze_incident: the caller gets HTTP 500 and the
\* BackgroundTasks object of the request is discarded with what it holds
Fail(message) ==
    /\ pc' = "FAILED"
    /\ response' = AnalysisFailed(message)
    /\ scheduled' = <<>>

\* Step 1: await vector_search.find_similar_incidents(...); raised stands for
\* the awaited call raising
RetrieveSimilar(raised) ==
    /\ pc = "RETRIEVING_SIMILAR"
    /\ IF raised
       THEN /\ Fail(LookupError)
            /\ UNCHANGED similar_incidents
       ELSE /\ similar_incidents' =
                 FindSimilarIncidents(request.service_name,
                                      FirstN(request.logs, EmbedLogLines), AnalyzeTopK)
            /\ pc' = "BUILDING_CONTEXT"
            /\ UNCHANGED <<response, scheduled>>
    /\ UNCHANGED <<request, numRequests, context, prompt, llmRequest, reply, llmCalls,
                   rca_result,
                   fix_code, timeline, taskVars, indexVars, remVars, extVars>>

\* RCAAgent.analyze: _prepare_context and _create_rca_prompt; now is the
\* clock reading inside _create_rca_prompt
BuildContext(now) ==
    /\ pc = "BUILDING_CONTEXT"
    /\ context' = PrepareContext(request.metrics, request.logs, request.traces,
                                 similar_incidents)
    /\ prompt' = CreateRcaPrompt(request.incident_id, context', now)
    /\ pc' = "REASONING"
    /\ UNCHANGED <<request, numRequests, similar_incidents, llmRequest, reply, llmCalls, rca_result,
                   fix_code, timeline, scheduled, response, taskVars, indexVars, remVars, extVars>>

\* RCAAgent.analyze: client.chat.completions.create; a timeout or an API
\* error is an exception that reaches the except clause of analyze_incident
CallReasoning(outcome) ==
    /\ pc = "REASONING"
    /\ llmRequest' = CreateArgs(prompt)
    /\ prompt' = NoResult
    /\ reply' = outcome
    /\ llmCalls' = llmCalls + 1
    /\ IF outcome.kind = "timeout" THEN Fail(TimeoutError)
       ELSE IF outcome.kind = "api_error" THEN Fail(ApiError)
       ELSE /\ pc' = "VALIDATING"
            /\ UNCHANGED <<response, scheduled>>
    /\ UNCHANGED <<request, numRequests, similar_incidents, context, rca_result,
                   fix_code, timeline, taskVars, indexVars, remVars, extVars>>

\* RCAAgent.analyze: json.loads of the response and the result dict; the
\* create call is over
Validate ==
    /\ pc = "VALIDATING"
    /\ IF reply.kind = "malformed"
       THEN /\ Fail(JsonError)
            /\ UNCHANGED rca_result
       ELSE /\ rca_result' = ParseResult(reply.body)
            /\ pc' = "GENERATING_FIX"
            /\ UNCHANGED <<response, scheduled>>
    /\ llmRequest' = NoResult
    /\ UNCHANGED <<request, numRequests, similar_incidents, context, prompt,
                   reply, llmCalls,
                   fix_code, timeline, taskVars, indexVars, remVars, extVars>>

\* Step 3: await fix_generator.generate_fix(...); raised stands for the
\* awaited call raising
GenerateFixStep(raised) ==
    /\ pc = "GENERATING_FIX"
    /\ IF raised
       THEN /\ Fail(FixError)
            /\ UNCHANGED fix_code
       ELSE /\ fix_code' = GenerateFix(rca_result.root_cause, request.service_name,
                                       rca_result.severity)
            /\ pc' = "ASSEMBLING_TIMELINE"
            /\ UNCHANGED <<response, scheduled>>
    /\ UNCHANGED <<request, numRequests, similar_incidents, context, prompt, llmRequest,
                   reply, llmCalls,
                   rca_result, timeline, taskVars, indexVars, remVars, extVars>>

\* Step 4: the timeline list, with two reads of datetime.utcnow(); the wall
\* clock may be set back between them
AssembleTimeline(t1, t2) ==
    /\ pc = "ASSEMBLING_TIMELINE"
    /\ timeline' = Timeline(request, t1, t2)
    /\ pc' = "PERSISTING"
    /\ UNCHANGED <<request, numRequests, similar_incidents, context, prompt, llmRequest,
                   reply, llmCalls,
                   rca_result, fix_code, scheduled, response, taskVars, indexVars, remVars, extVars>>

\* background_tasks.add_task(vector_search.store_incident, ...)
SchedulePersist ==
    /\ pc = "PERSISTING"
    /\ scheduled' = Append(scheduled, StoreTask(request, rca_result))
    /\ pc' = "RETURNING"
    /\ UNCHANGED <<request, numRequests, similar_incidents, context, prompt, llmRequest,
                   reply, llmCalls,
                   rca_result, fix_code, timeline, response, taskVars, indexVars, remVars, extVars>>

\* return IncidentAnalysisResponse(...): the response goes out and the tasks
\* of the request are left to run after it
ReturnResponse ==
    /\ pc = "RETURNING"
    /\ response' = AnalysisResponse(request, rca_result, fix_code, similar_incidents, timeline)
    /\ pendingTasks' = pendingTasks \o scheduled
    /\ scheduled' = <<>>
    /\ pc' = "DONE"
    /\ UNCHANGED <<request, numRequests, similar_incidents, context, prompt, llmRequest,
                   reply, llmCalls,
                   rca_result, fix_code, timeline, storeCalls, indexVars, remVars, extVars>>

\* a background task runs: await vector_search.store_incident(incident_id, data)
RunBackgroundTask ==
    /\ pendingTasks # <<>>
    /\ LET task == Head(pendingTasks)
           after == StoreIncident(index, metadata, task.incident_id, task.data)
       IN  /\ index' = after.index
           /\ metadata' = after.metadata
           /\ storeCalls' = [storeCalls EXCEPT ![task.incident_id] = @ + 1]
    /\ pendingTasks' = Tail(pendingTasks)
    /\ UNCHANGED <<analyzeVars, lastQuery, indexCalls, remVars, extVars>>

(* ----------------------- direct VectorSearch calls --------------------- *)

TopKs == (-1)..MaxTopK

\* await vector_search.find_similar_incidents(service, logs, top_k)
QueryIndex(service, logs, top_k) ==
    /\ indexCalls < MaxIndexCalls
    /\ indexCalls' = indexCalls + 1
    /\ lastQuery' = [called |-> TRUE, top_k |-> top_k, ntotal |-> Len(index),
                     result |-> FindSimilarIncidents(service, logs, top_k)]
    /\ UNCHANGED <<analyzeVars, taskVars, index, metadata, remVars, extVars>>

\* await vector_search.store_incident(incident_id, data)
StoreIncidentCall(incident_id, data) ==
    /\ indexCalls < MaxIndexCalls
    /\ indexCalls' = indexCalls + 1
    /\ LET after == StoreIncident(index, metadata, incident_id, data)
       IN  /\ index' = after.index
           /\ metadata' = after.metadata
    /\ storeCalls' = [storeCalls EXCEPT ![incident_id] = @ + 1]
    /\ UNCHANGED <<analyzeVars, pendingTasks, lastQuery, remVars, extVars>>

StoreData ==
    [service : Services, root_cause : {"Memory leak"}, logs : LogSamples]

(* ------------------ FixGenerator.apply_fix / proposals ----------------- *)

RemediationKeys == IncidentIds \X FixTypes

\* apply_fix that executes the fix on every call
ApplyFixNoMemo(cache, effects, incident_id, fix_type) ==
    LET key == <<incident_id, fix_type>>
        result == [incident_id |-> incident_id, fix_type |-> fix_type,
                   outcome |-> "success", execution |-> effects[key] + 1]
    IN  [result |-> result, cache |-> [k \in DOMAIN cache \cup {key} |-> IF k = key THEN result ELSE cache[k]],
         effects |-> [effects EXCEPT ![key] = @ + 1], executed |-> TRUE]

\* FixGenerator.apply_fix(incident_id, fix_type): the first call for a key
\* executes the fix and remembers its result; a later call for the same key
\* returns the remembered result and executes nothing.  The result carries
\* the number of the execution that produced it.
ApplyFix(cache, effects, incident_id, fix_type) ==
    LET key == <<incident_id, fix_type>>
    IN  IF key \in DOMAIN cache
        THEN [result |-> cache[key], cache |-> cache, effects |-> effects,
              executed |-> FALSE]
        ELSE LET result == [incident_id |-> incident_id, fix_type |-> fix_type,
                            outcome |-> "success", execution |-> effects[key] + 1]
             IN  [result |-> result, cache |-> cache @@ (key :> result),
                  effects |-> [effects EXCEPT ![key] = @ + 1], executed |-> TRUE]

\* FixGenerator.create_pull_request(incident_id, fix_type): a stable
\* reference per key
CreatePullRequest(prs, incident_id, fix_type) ==
    LET key == <<incident_id, fix_type>>
    IN  IF key \in DOMAIN prs
        THEN [pr_url |-> prs[key], prs |-> prs]
        ELSE LET url == <<"pull", Cardinality(DOMAIN prs) + 1>>
             IN  [pr_url |-> url, prs |-> prs @@ (key :> url)]

(* -------------------------- execute_remediation ------------------------ *)

\* the branch taken when auto_approve is not looked at
RemediationBranchAlwaysApply(auto_approve) == "apply_fix"

\* if auto_approve: apply_fix ... else: create_pull_request
RemediationBranch(auto_approve) ==
    IF auto_approve THEN "apply_fix" ELSE "create_pull_request"

\* the dict returned after apply_fix
AppliedResponse(incident_id, result) ==
    [status |-> "applied", incident_id |-> incident_id, result |-> result]

\* the dict returned after create_pull_request
PendingResponse(incident_id, pr_url) ==
    [status |-> "pending_approval", incident_id |-> incident_id, pr_url |-> pr_url]

\* what the awaited call of the fix generator raised
RemediationError == "fix generator failed"

\* except Exception as e: raise HTTPException(500, f"Remediation failed: {str(e)}")
RemediationFailed(message) ==
    [status_code |-> 500, error |-> "HTTPException",
     detail |-> <<"Remediation failed: ", message>>]

\* execute_remediation; raised stands for the awaited call (apply_fix or
\* create_pull_request) raising, which leaves the generator as it was
ExecuteRemediation(incident_id, fix_type, auto_approve, raised) ==
    /\ Len(remLog) + Len(remErrors) < MaxRemediations
    /\ LET branch == RemediationBranch(auto_approve)
           entry == [incident_id |-> incident_id, fix_type |-> fix_type,
                     auto_approve |-> auto_approve, called |-> branch]
       IN  IF raised
           THEN /\ remErrors' = Append(remErrors,
                      entry @@ [response |-> RemediationFailed(RemediationError)])
                /\ UNCHANGED <<fixCache, sideEffects, pullRequests, remLog>>
           ELSE IF branch = "apply_fix"
           THEN LET applied == ApplyFix(fixCache, sideEffects, incident_id, fix_type)
                IN  /\ fixCache' = applied.cache
                    /\ sideEffects' = applied.effects
                    /\ remLog' = Append(remLog,
                          entry @@ [executed |-> applied.executed,
                                    response |-> AppliedResponse(incident_id, applied.result)])
                    /\ UNCHANGED <<pullRequests, remErrors>>
           ELSE LET proposed == CreatePullRequest(pullRequests, incident_id, fix_type)
                IN  /\ pullRequests' = proposed.prs
                    /\ remLog' = Append(remLog,
                          entry @@ [executed |-> FALSE,
                                    response |-> PendingResponse(incident_id, proposed.pr_url)])
                    /\ UNCHANGED <<fixCache, sideEffects, remErrors>>
    /\ UNCHANGED <<analyzeVars, taskVars, indexVars, extVars>>

(* --------------------------- AnomalyPredictor -------------------------- *)
(* Metric values are integers; error_rate is kept in thousandths (0.05 is  *)
(* 50, 0.12 is 120), anomaly scores in hundredths.                         *)

\* _fetch_metrics: range(60), one sample a minute
FetchPoints == 60

\* _fetch_metrics: the index i of the injected incident
IncidentMinute == 45

\* predict calls in one behaviour
MaxPredicts == 1

\* train calls in one behaviour
MaxTrains == 2

\* the feature order of _prepare_features
FeatureNames ==
    <<"cpu_usage", "memory_usage", "response_time", "error_rate", "request_rate",
      "network_rx", "network_tx">>

\* AnomalyPredictor._prepare_features: one row per sample, metric.get(name, 0)
\* for the seven names in order
PrepareFeatures(data) ==
    [i \in 1..Len(data) |->
        [j \in 1..Len(FeatureNames) |-> Get(data[i], FeatureNames[j], 0)]]

\* the fixed recommendation of a normal sample
NoAction == "No action required - metrics within normal range"
CpuAdvice == "High CPU detected - consider scaling horizontally"
MemoryAdvice == "High memory usage - check for memory leaks or increase limits"
LatencyAdvice ==
    "Elevated response time - investigate database queries or external API calls"
ErrorAdvice == "High error rate - check application logs for exceptions"
ManualAdvice == "Anomaly detected - manual investigation recommended"

\* the thresholds of _get_recommendation (error_rate 0.05 in thousandths)
CpuThreshold == 80
MemoryThreshold == 85
LatencyThreshold == 1000
ErrorThreshold == 50

\* the recommendations list of _get_recommendation with `elif` in place of
\* the second to fourth `if`
AdviceFirstOnly(metrics) ==
    IF Get(metrics, "cpu_usage", 0) > CpuThreshold THEN <<CpuAdvice>>
    ELSE IF Get(metrics, "memory_usage", 0) > MemoryThreshold THEN <<MemoryAdvice>>
    ELSE IF Get(metrics, "response_time", 0) > LatencyThreshold THEN <<LatencyAdvice>>
    ELSE IF Get(metrics, "error_rate", 0) > ErrorThreshold THEN <<ErrorAdvice>>
    ELSE <<>>

\* the recommendations list of _get_recommendation for an anomalous sample
Advice(metrics) ==
    (IF Get(metrics, "cpu_usage", 0) > CpuThreshold THEN <<CpuAdvice>> ELSE <<>>)
    \o (IF Get(metrics, "memory_usage", 0) > MemoryThreshold THEN <<MemoryAdvice>> ELSE <<>>)
    \o (IF Get(metrics, "response_time", 0) > LatencyThreshold THEN <<LatencyAdvice>> ELSE <<>>)
    \o (IF Get(metrics, "error_rate", 0) > ErrorThreshold THEN <<ErrorAdvice>> ELSE <<>>)

\* AnomalyPredictor._get_recommendation; the returned string is kept as the
\* sequence of the parts that " | ".join puts together
GetRecommendation(is_anomaly, metrics) ==
    IF ~ is_anomaly THEN <<NoAction>>
    ELSE IF Advice(metrics) # <<>> THEN Advice(metrics) ELSE <<ManualAdvice>>

Abs(x) == IF x < 0 THEN -x ELSE x

\* one entry of the results list of predict; out is the (prediction, score)
\* the model gave for the sample
Verdict(sample, out) ==
    [timestamp |-> sample.timestamp,
     is_anomaly |-> (out.pred = -1),
     score |-> out.score,
     confidence |-> Abs(out.score),
     metrics |-> sample,
     recommendation |-> GetRecommendation(out.pred = -1, sample)]

\* what IsolationForest.predict may give for one row: 1 normal, -1 anomaly
Predictions == {1, -1}

\* what IsolationForest.score_samples may give for one row
Scores == {-40, -70}

\* one sample of _fetch_metrics: every metric present
Sample(cpu, memory, response_time, error_rate) ==
    [timestamp |-> 0, cpu_usage |-> cpu, memory_usage |-> memory,
     response_time |-> response_time, error_rate |-> error_rate,
     request_rate |-> 100, network_rx |-> 1000, network_tx |-> 800]

\* the sample _fetch_metrics builds with no noise drawn
BaseSample == Sample(50, 60, 200, 10)

\* the sample _fetch_metrics builds at the minute of the injected incident
IncidentSample == Sample(95, 92, 3500, 10)

\* samples _fetch_metrics may build at another minute with noise drawn, each
\* metric within the range _fetch_metrics clamps it to
FetchedSamples == {Sample(45, 55, 180, 10)}

\* the lists _fetch_metrics may return: FetchPoints samples, the incident at
\* index IncidentMinute, noise drawn for the first sample
FetchedMetrics ==
    {[i \in 1..FetchPoints |->
         IF i = IncidentMinute + 1 THEN IncidentSample
         ELSE IF i = 1 THEN first ELSE BaseSample] : first \in FetchedSamples}

\* the distinct rows of a feature matrix
Rows(feats) == {feats[i] : i \in DOMAIN feats}

\* the array a fitted model gives for a feature matrix: one value per row,
\* the value answer gives for that row
ReadRows(answer, feats) == [i \in DOMAIN feats |-> answer[feats[i]]]

\* StandardScaler() / IsolationForest(...) as constructed, not fitted
UnfittedScaler == [fitted |-> FALSE, gen |-> 0, n_features |-> 0]
UnfittedModel == [fitted |-> FALSE, gen |-> 0, n_features |-> 0]

\* what is at model_path when the process starts: nothing, or a fitted model
\* with its scaler, fitted on 7 or on 5 feature columns
ModelFiles == {[exists |-> FALSE]} \cup {[exists |-> TRUE, n_features |-> n] : n \in {7, 5}}

\* AnomalyPredictor.__init__
AnomalyPredictorInit(file) ==
    IF file.exists
    THEN [scaler |-> [fitted |-> TRUE, gen |-> 1, n_features |-> file.n_features],
          model |-> [fitted |-> TRUE, gen |-> 1, n_features |-> file.n_features]]
    ELSE [scaler |-> UnfittedScaler, model |-> UnfittedModel]

\* StandardScaler.transform(features): raises when the scaler is not fitted
\* or was fitted on another number of columns
ScalerTransform(sc, feats) ==
    IF ~ sc.fitted THEN [ok |-> FALSE, raised |-> "NotFittedError"]
    ELSE IF \E i \in DOMAIN feats : Len(feats[i]) # sc.n_features
         THEN [ok |-> FALSE, raised |-> "ValueError"]
         ELSE [ok |-> TRUE, raised |-> "none"]

\* IsolationForest.predict / score_samples on the scaled features (as wide
\* as the features): raises when the model is not fitted or was fitted on
\* another number of columns
ModelRead(m, feats) ==
    IF ~ m.fitted THEN [ok |-> FALSE, raised |-> "NotFittedError"]
    ELSE IF \E i \in DOMAIN feats : Len(feats[i]) # m.n_features
         THEN [ok |-> FALSE, raised |-> "ValueError"]
         ELSE [ok |-> TRUE, raised |-> "none"]

NoUse == [scaler |-> -1, predict |-> -1, score |-> -1]

Max(a, b) == IF a < b THEN b ELSE a

\* the number of the next fit: fits are numbered in the order they are made
NewGen ==
    1 + Max(Max(scaler.gen, model.gen), Max(savedModel.model, savedModel.scaler))

\* what a call of predict gave its caller: nothing yet, the results list, or
\* the exception that left predict
NoOutcome == [kind |-> "none"]
Returned(results) == [kind |-> "returned", results |-> results]
Raised(exception) == [kind |-> "raised", exception |-> exception]

predictVars == <<metrics_data, features, predPc, used, labels, predRaised, predResponse,
                 numPredicts>>
trainVars == <<trainPc, scriptPc, numTrains>>

\* an exception leaves predict: nothing in predict catches it
PredictFail(raised) ==
    /\ predPc' = "failed"
    /\ predRaised' = raised
    /\ predResponse' = Raised(raised)

\* predict: _fetch_metrics and _prepare_features
PredictFetch(data) ==
    /\ predPc \in {"idle", "done", "failed"}
    /\ numPredicts < MaxPredicts
    /\ numPredicts' = numPredicts + 1
    /\ metrics_data' = data
    /\ features' = PrepareFeatures(data)
    /\ used' = NoUse
    /\ labels' = <<>>
    /\ predRaised' = "none"
    /\ predResponse' = NoOutcome
    /\ predPc' = "scaling"
    /\ UNCHANGED <<scaler, model, savedModel, trainVars, analyzeVars, taskVars, indexVars,
                   remVars, diskVars, promptVars>>

\* predict: features_scaled = self.scaler.transform(features)
PredictScale ==
    /\ predPc = "scaling"
    /\ LET t == ScalerTransform(scaler, features)
       IN  IF t.ok
           THEN /\ used' = [used EXCEPT !.scaler = scaler.gen]
                /\ predPc' = "predicting"
                /\ UNCHANGED <<predRaised, predResponse>>
           ELSE /\ PredictFail(t.raised)
                /\ UNCHANGED used
    /\ UNCHANGED <<metrics_data, features, labels, numPredicts, scaler, model, savedModel,
                   trainVars, analyzeVars, taskVars, indexVars, remVars, diskVars, promptVars>>

\* predict: predictions = self.model.predict(features_scaled)
PredictLabels(preds) ==
    /\ predPc = "predicting"
    /\ Len(preds) = Len(features)
    /\ LET r == ModelRead(model, features)
       IN  IF r.ok
           THEN /\ used' = [used EXCEPT !.predict = model.gen]
                /\ labels' = preds
                /\ predPc' = "scoring"
                /\ UNCHANGED <<predRaised, predResponse>>
           ELSE /\ PredictFail(r.raised)
                /\ UNCHANGED <<used, labels>>
    /\ UNCHANGED <<metrics_data, features, numPredicts, scaler, model, savedModel,
                   trainVars, analyzeVars, taskVars, indexVars, remVars, diskVars, promptVars>>

\* predict: anomaly_scores = self.model.score_samples(features_scaled), read
\* from self.model as it is at this step, the results list over
\* zip(predictions, anomaly_scores), and return results
PredictScore(scores) ==
    /\ predPc = "scoring"
    /\ Len(scores) = Len(features)
    /\ LET r == ModelRead(model, features)
       IN  IF r.ok
           THEN /\ used' = [used EXCEPT !.score = model.gen]
                /\ predResponse' =
                      Returned([i \in DOMAIN labels |->
                                   Verdict(metrics_data[i],
                                           [pred |-> labels[i], score |-> scores[i]])])
                /\ predPc' = "done"
                /\ UNCHANGED predRaised
           ELSE /\ PredictFail(r.raised)
                /\ UNCHANGED used
    /\ UNCHANGED <<metrics_data, features, labels, numPredicts, scaler, model, savedModel,
                   trainVars, analyzeVars, taskVars, indexVars, remVars, diskVars, promptVars>>

\* train: X_scaled = self.scaler.fit_transform(X) refits the scaler object
\* that predict reads
TrainFitScaler ==
    /\ trainPc = "idle"
    /\ numTrains < MaxTrains
    /\ numTrains' = numTrains + 1
    /\ scaler' = [fitted |-> TRUE, gen |-> NewGen, n_features |-> Len(FeatureNames)]
    /\ trainPc' = "scaler_fitted"
    /\ UNCHANGED <<model, savedModel, scriptPc, predictVars, analyzeVars, taskVars,
                   indexVars, remVars, diskVars, promptVars>>

\* train: self.model.fit(X_scaled) refits the model object that predict reads
TrainFitModel ==
    /\ trainPc = "scaler_fitted"
    /\ model' = [fitted |-> TRUE, gen |-> scaler.gen, n_features |-> Len(FeatureNames)]
    /\ trainPc' = "model_fitted"
    /\ UNCHANGED <<scaler, savedModel, scriptPc, numTrains, predictVars, analyzeVars,
                   taskVars, indexVars, remVars, diskVars, promptVars>>

\* train: os.makedirs and joblib.dump(self.model, self.model_path)
TrainSaveModel ==
    /\ trainPc = "model_fitted"
    /\ savedModel' = [savedModel EXCEPT !.model = model.gen]
    /\ trainPc' = "model_saved"
    /\ UNCHANGED <<scaler, model, scriptPc, numTrains, predictVars, analyzeVars, taskVars,
                   indexVars, remVars, diskVars, promptVars>>

\* train: joblib.dump(self.scaler, ..._scaler.pkl) and return
TrainSaveScaler ==
    /\ trainPc = "model_saved"
    /\ savedModel' = [savedModel EXCEPT !.scaler = scaler.gen]
    /\ trainPc' = "idle"
    /\ UNCHANGED <<scaler, model, scriptPc, numTrains, predictVars, analyzeVars, taskVars,
                   indexVars, remVars, diskVars, promptVars>>

ScriptIdle == [pc |-> "idle"]

\* train_anomaly_detector in a process of its own, AnomalyPredictor():
\* os.path.exists(model_path) and, when the model file is there, joblib.load
\* of it; with no model file the predictor is constructed
ScriptConstruct ==
    /\ scriptPc.pc \in {"idle", "crashed"}
    /\ numTrains < MaxTrains
    /\ scriptPc' = IF savedModel.model # 0 THEN [pc |-> "model_loaded"]
                   ELSE [pc |-> "constructed"]
    /\ UNCHANGED <<scaler, model, savedModel, trainPc, numTrains, predictVars, analyzeVars,
                   taskVars, indexVars, remVars, diskVars, promptVars>>

\* AnomalyPredictor(): joblib.load of the scaler file, which raises
\* FileNotFoundError when that file is not there
ScriptLoadScaler ==
    /\ scriptPc.pc = "model_loaded"
    /\ scriptPc' = IF savedModel.scaler # 0 THEN [pc |-> "constructed"]
                   ELSE [pc |-> "crashed", raised |-> "FileNotFoundError"]
    /\ UNCHANGED <<scaler, model, savedModel, trainPc, numTrains, predictVars, analyzeVars,
                   taskVars, indexVars, remVars, diskVars, promptVars>>

\* train_anomaly_detector: predictor.train(df) on the script's own predictor
\* up to joblib.dump of the model; the scaler and model of the serving
\* predictor are not touched
ScriptTrainSaveModel ==
    /\ scriptPc.pc = "constructed"
    /\ numTrains < MaxTrains
    /\ numTrains' = numTrains + 1
    /\ savedModel' = [savedModel EXCEPT !.model = NewGen]
    /\ scriptPc' = [pc |-> "model_saved", gen |-> NewGen]
    /\ UNCHANGED <<scaler, model, trainPc, predictVars, analyzeVars, taskVars,
                   indexVars, remVars, diskVars, promptVars>>

\* train_anomaly_detector: joblib.dump of the scaler and return
ScriptTrainSaveScaler ==
    /\ scriptPc.pc = "model_saved"
    /\ savedModel' = [savedModel EXCEPT !.scaler = scriptPc.gen]
    /\ scriptPc' = ScriptIdle
    /\ UNCHANGED <<scaler, model, trainPc, numTrains, predictVars, analyzeVars, taskVars,
                   indexVars, remVars, diskVars, promptVars>>

\* the predictor is constructed from what is at model_path; data is the
\* sample list a caller is about to hand to _prepare_features
AnomalyInitWith(file, data) ==
    /\ metrics_data = data
    /\ features = <<>>
    /\ scaler = AnomalyPredictorInit(file).scaler
    /\ model = AnomalyPredictorInit(file).model
    /\ savedModel = IF file.exists THEN [model |-> 1, scaler |-> 1]
                    ELSE [model |-> 0, scaler |-> 0]
    /\ predPc = "idle"
    /\ used = NoUse
    /\ labels = <<>>
    /\ predRaised = "none"
    /\ predResponse = NoOutcome
    /\ numPredicts = 0
    /\ trainPc = "idle"
    /\ scriptPc = ScriptIdle
    /\ numTrains = 0

AnomalyInit(file) == AnomalyInitWith(file, <<>>)

\* samples in one call of _prepare_features
MaxSamples == 1

\* metric dicts as _prepare_features accepts them: any subset of the seven
\* metrics, values inside and outside the metric's range
RawSamples ==
    {Field("cpu_usage", c) @@ Field("memory_usage", m) @@ Field("response_time", r)
        @@ Field("error_rate", e) @@ Field("request_rate", q)
        @@ Field("network_rx", x) @@ Field("network_tx", t) :
        c \in Opt({45, 150}), m \in Opt({92, -5}), r \in Opt({180}),
        e \in Opt({10}), q \in Opt({-3}), x \in Opt({1000}), t \in Opt({800})}

\* a call of _prepare_features on the sample list
PrepareFeaturesCall ==
    /\ predPc = "idle"
    /\ features' = PrepareFeatures(metrics_data)
    /\ predPc' = "prepared"
    /\ UNCHANGED <<metrics_data, used, labels, predRaised, predResponse, numPredicts,
                   scaler, model, savedModel, trainVars, analyzeVars, taskVars, indexVars,
                   remVars, diskVars, promptVars>>

(* ------------------- VectorSearch files at index_path ------------------ *)

\* save_index calls and constructions in one behaviour
MaxDiskCalls == 3

Absent == [exists |-> FALSE]
FileOf(entries) == [exists |-> TRUE, entries |-> entries]

\* a file opened with "wb" and not written yet: it exists and is empty
EmptyFile == [exists |-> TRUE, torn |-> TRUE]

\* the file holds a complete dump
Complete(file) == file.exists /\ "entries" \in DOMAIN file

\* the two files of a disk image
FilesOf(disk) ==
    IF disk.exists
    THEN [index |-> FileOf(disk.index), meta |-> FileOf(disk.metadata)]
    ELSE [index |-> Absent, meta |-> Absent]

\* disk images whose index file and .meta file were written by one save_index
SavedDiskImages == {d \in DiskImages : d.exists => Len(d.index) = Len(d.metadata)}

LoaderIdle == [pc |-> "idle"]

\* save_index: faiss.write_index(self.index, self.index_path)
SaveWriteIndex ==
    /\ savePc = "idle"
    /\ diskCalls < MaxDiskCalls
    /\ diskCalls' = diskCalls + 1
    /\ files' = [files EXCEPT !.index = FileOf(index)]
    /\ savePc' = "index_written"
    /\ UNCHANGED <<loader, analyzeVars, taskVars, indexVars, remVars, anomalyVars,
                   promptVars>>

\* save_index: open(index_path + ".meta", "wb") creates or truncates the file
SaveOpenMeta ==
    /\ savePc = "index_written"
    /\ files' = [files EXCEPT !.meta = EmptyFile]
    /\ savePc' = "meta_opened"
    /\ UNCHANGED <<loader, diskCalls, analyzeVars, taskVars, indexVars, remVars,
                   anomalyVars, promptVars>>

\* save_index: pickle.dump(self.metadata, f) and the end of the with block
SaveWriteMeta ==
    /\ savePc = "meta_opened"
    /\ files' = [files EXCEPT !.meta = FileOf(metadata)]
    /\ savePc' = "idle"
    /\ UNCHANGED <<loader, diskCalls, analyzeVars, taskVars, indexVars, remVars,
                   anomalyVars, promptVars>>

\* VectorSearch.__init__ in another process: os.path.exists(index_path), then
\* load_index reads the index file, or a new empty index is made
LoaderReadIndex ==
    /\ loader.pc \in {"idle", "constructed", "failed"}
    /\ diskCalls < MaxDiskCalls
    /\ diskCalls' = diskCalls + 1
    /\ loader' = IF files.index.exists
                 THEN [pc |-> "index_read", index |-> files.index.entries]
                 ELSE [pc |-> "constructed", index |-> <<>>, metadata |-> <<>>]
    /\ UNCHANGED <<files, savePc, analyzeVars, taskVars, indexVars, remVars, anomalyVars,
                   promptVars>>

\* load_index: open(index_path + ".meta", "rb") and pickle.load; open raises
\* FileNotFoundError when the .meta file is not there, pickle.load raises
\* EOFError when it is empty
LoaderReadMeta ==
    /\ loader.pc = "index_read"
    /\ loader' = IF ~ files.meta.exists
                 THEN [pc |-> "failed", raised |-> "FileNotFoundError"]
                 ELSE IF ~ Complete(files.meta)
                 THEN [pc |-> "failed", raised |-> "EOFError"]
                 ELSE [pc |-> "constructed", index |-> loader.index,
                       metadata |-> files.meta.entries]
    /\ UNCHANGED <<files, savePc, diskCalls, analyzeVars, taskVars, indexVars, remVars,
                   anomalyVars, promptVars>>

DiskInit(disk) ==
    /\ files = FilesOf(disk)
    /\ savePc = "idle"
    /\ loader = LoaderIdle
    /\ diskCalls = 0

(* ------------------- RCAAgent: context and prompt ---------------------- *)

\* RCAAgent.analyze calls made on one incident
MaxBuilds == 2

\* list lengths around the caps of _prepare_context
LogLengths == {0, 1, 49, 50, 51, 52}
TraceLengths == {0, 1, 10, 11}
SimilarLengths == {0, 1, 3, 4}

NumberedLogs(n) == [i \in 1..n |-> ToString(i)]
NumberedTraces(n) == [i \in 1..n |-> [span |-> i]]
NumberedSimilar(n) ==
    [i \in 1..n |-> [incident_id |-> ToString(i), root_cause |-> "Memory leak in service",
                     similarity |-> 89]]

\* the arguments of RCAAgent.analyze
ContextInputs ==
    [incident_id : {"INC-1"},
     metrics : {EmptyDict, [cpu_usage |-> 95, memory_usage |-> 92]},
     logs : {NumberedLogs(n) : n \in LogLengths},
     traces : {NumberedTraces(n) : n \in TraceLengths},
     similar : {NumberedSimilar(n) : n \in SimilarLengths}]

NoInput == [incident_id |-> "none"]

\* RCAAgent.analyze up to the create call: _prepare_context, then
\* _create_rca_prompt, which reads the clock
BuildPrompt(now) ==
    /\ ctxInput # NoInput
    /\ Len(handed) < MaxBuilds
    /\ LET ctx == PrepareContext(ctxInput.metrics, ctxInput.logs, ctxInput.traces,
                                 ctxInput.similar)
       IN  handed' = Append(handed,
                            [context |-> ctx,
                             prompt |-> CreateRcaPrompt(ctxInput.incident_id, ctx, now)])
    /\ UNCHANGED <<ctxInput, analyzeVars, taskVars, indexVars, remVars, anomalyVars,
                   diskVars>>

PromptInit(input) ==
    /\ ctxInput = input
    /\ handed = <<>>

(* --------------------------- specifications ---------------------------- *)

\* the state once the module has been imported: the four components are
\* constructed, VectorSearch from what it finds at index_path
CoreInit(disk) ==
    /\ pc = "IDLE"
    /\ request = NoRequest
    /\ numRequests = 0
    /\ similar_incidents = <<>>
    /\ context = NoResult
    /\ prompt = NoResult
    /\ llmRequest = NoResult
    /\ reply = NoReply
    /\ llmCalls = 0
    /\ rca_result = NoResult
    /\ fix_code = NoResult
    /\ timeline = <<>>
    /\ scheduled = <<>>
    /\ response = NoResponse
    /\ pendingTasks = <<>>
    /\ storeCalls = [i \in IncidentIds |-> 0]
    /\ index = VectorSearchInit(disk).index
    /\ metadata = VectorSearchInit(disk).metadata
    /\ lastQuery = [called |-> FALSE]
    /\ indexCalls = 0
    /\ fixCache = EmptyDict
    /\ sideEffects = [k \in RemediationKeys |-> 0]
    /\ pullRequests = EmptyDict
    /\ remLog = <<>>
    /\ remErrors = <<>>

\* the whole engine, with no model file at model_path
InitWith(disk) ==
    /\ CoreInit(disk)
    /\ AnomalyInit([exists |-> FALSE])
    /\ DiskInit(disk)
    /\ PromptInit(NoInput)

\* start-up with no index file at index_path
Init == InitWith([exists |-> FALSE])

\* start-up with any of the index files
IndexInit == \E disk \in DiskImages : InitWith(disk)

\* the analysis pipeline and its background tasks
Next ==
    \/ \E req \in Requests : ReceiveAnalyze(req)
    \/ \E raised \in BOOLEAN : RetrieveSimilar(raised)
    \/ \E now \in Times : BuildContext(now)
    \/ \E outcome \in ReasoningOutcomes : CallReasoning(outcome)
    \/ Validate
    \/ \E raised \in BOOLEAN : GenerateFixStep(raised)
    \/ \E t1, t2 \in Times : AssembleTimeline(t1, t2)
    \/ SchedulePersist
    \/ ReturnResponse
    \/ RunBackgroundTask

Spec == Init /\ [][Next]_vars

\* direct calls of the similarity index
IndexNext ==
    \/ \E sv \in Services, lg \in LogSamples, k \in TopKs :
           QueryIndex(sv, lg, k)
    \/ \E id \in IncidentIds, data \in StoreData : StoreIncidentCall(id, data)

IndexSpec == IndexInit /\ [][IndexNext]_vars

\* the remediation endpoint
RemNext ==
    \E id \in IncidentIds, ft \in FixTypes, aa, raised \in BOOLEAN :
        ExecuteRemediation(id, ft, aa, raised)

RemSpec == Init /\ [][RemNext]_vars

\* predict_anomalies with a train call on another thread
PredictNext ==
    \/ \E data \in FetchedMetrics : PredictFetch(data)
    \/ PredictScale
    \/ \E answer \in [Rows(features) -> Predictions] :
          PredictLabels(ReadRows(answer, features))
    \/ \E answer \in [Rows(features) -> Scores] :
          PredictScore(ReadRows(answer, features))
    \/ TrainFitScaler
    \/ TrainFitModel
    \/ TrainSaveModel
    \/ TrainSaveScaler
    \/ ScriptConstruct
    \/ ScriptLoadScaler
    \/ ScriptTrainSaveModel
    \/ ScriptTrainSaveScaler

PredictInit ==
    /\ CoreInit([exists |-> FALSE])
    /\ \E file \in ModelFiles : AnomalyInit(file)
    /\ DiskInit([exists |-> FALSE])
    /\ PromptInit(NoInput)

PredictSpec == PredictInit /\ [][PredictNext]_vars

\* _prepare_features on every sample list
FeatureInit ==
    /\ CoreInit([exists |-> FALSE])
    /\ \E data \in SeqsUpTo(RawSamples, MaxSamples) :
          AnomalyInitWith([exists |-> FALSE], data)
    /\ DiskInit([exists |-> FALSE])
    /\ PromptInit(NoInput)

FeatureNext == PrepareFeaturesCall

FeatureSpec == FeatureInit /\ [][FeatureNext]_vars

\* save_index in the serving process, a second process starting on the same
\* files, and store_incident calls
DiskNext ==
    \/ SaveWriteIndex
    \/ SaveOpenMeta
    \/ SaveWriteMeta
    \/ LoaderReadIndex
    \/ LoaderReadMeta
    \/ \E id \in IncidentIds, data \in StoreData : StoreIncidentCall(id, data)

DiskSpecInit ==
    \E disk \in SavedDiskImages :
        /\ CoreInit(disk)
        /\ AnomalyInit([exists |-> FALSE])
        /\ DiskInit(disk)
        /\ PromptInit(NoInput)

DiskSpec == DiskSpecInit /\ [][DiskNext]_vars

\* context and prompt built repeatedly from the same arguments
PromptNext == \E now \in Times : BuildPrompt(now)

PromptSpecInit ==
    /\ CoreInit([exists |-> FALSE])
    /\ AnomalyInit([exists |-> FALSE])
    /\ DiskInit([exists |-> FALSE])
    /\ \E input \in ContextInputs : PromptInit(input)

PromptSpec == PromptSpecInit /\ [][PromptNext]_vars

TypeOK ==
    /\ pc \in Stages
    /\ numRequests \in 0..MaxRequests
    /\ Len(remLog) + Len(remErrors) <= MaxRemediations

(* ------------------------------- claims -------------------------------- *)

ReasoningFailed == reply.kind \in {"timeout", "api_error", "malformed"}

\* C1: when the reasoning call times out, raises or returns text that does
\* not parse, the request ends in a failure typed as a reasoning-unavailable
\* failure, and nothing is handed to the background tasks of the request.
C1_ReasoningFailureIsTyped ==
    ReasoningFailed =>
        /\ pc \in {"VALIDATING", "FAILED"}
        /\ scheduled = <<>>
        /\ pc = "FAILED" =>
              /\ response.status = 500
              /\ response.error = "ReasoningUnavailableError"

\* C2: a failing similar-incident lookup does not fail the request (the
\* pipeline goes on with an empty list).
C2_LookupFailureNonFatal ==
    ~ (pc = "FAILED" /\ response = AnalysisFailed(LookupError))

\* C3: for a reply that parses as a JSON object, an omitted root_cause,
\* severity or confidence is defaulted ("Unknown", "medium", 0.0) and never
\* fails the request: the request fails after such a reply only when the fix
\* generator raises, and otherwise it reaches the response with the fix, the
\* three timeline events and the persistence task.
C3_OmittedFieldsDefaulted ==
    reply.kind = "object" =>
        /\ pc = "FAILED" => response = AnalysisFailed(FixError)
        /\ rca_result # NoResult =>
              /\ "root_cause" \notin DOMAIN reply.body => rca_result.root_cause = "Unknown"
              /\ "severity" \notin DOMAIN reply.body => rca_result.severity = "medium"
              /\ "confidence" \notin DOMAIN reply.body => rca_result.confidence = 0
        /\ pc = "DONE" =>
              /\ response.status = 200
              /\ response.root_cause = rca_result.root_cause
              /\ response.severity = rca_result.severity
              /\ response.confidence = rca_result.confidence
              /\ response.recommended_fix = fix_code.fix_details
              /\ Len(response.timeline) = 3
              /\ Len(pendingTasks) + storeCalls[request.incident_id] >= 1

C3_Witness ==
    /\ pc = "DONE"
    /\ reply.kind = "object"
    /\ DOMAIN reply.body = {"root_cause", "severity"}
    /\ response.status = 200
    /\ response.confidence = 0
    /\ pendingTasks # <<>>

\* C4: every one of root_cause, severity and confidence that the reply
\* carries is returned by RCAAgent.analyze with the value the reply gave,
\* whatever else the reply omits.
C4_PresentFieldsKept ==
    (reply.kind = "object" /\ rca_result # NoResult) =>
        \A key \in {"root_cause", "severity", "confidence"} :
            key \in DOMAIN reply.body => rca_result[key] = reply.body[key]

C4_Witness ==
    /\ reply.kind = "object"
    /\ rca_result # NoResult
    /\ DOMAIN reply.body = {"severity", "confidence"}
    /\ rca_result.severity = "urgent"
    /\ rca_result.confidence = 150
    /\ rca_result.root_cause = "Unknown"

StoredRecords(incident_id) ==
    {k \in DOMAIN metadata : metadata[k].incident_id = incident_id}

\* C5: once the persistence task of an analyzed incident has run (once or
\* several times), the store holds exactly one record for that incident_id.
C5_PersistedExactlyOnce ==
    \A id \in IncidentIds :
        storeCalls[id] >= 1 => Cardinality(StoredRecords(id)) = 1

AtMost(n) == IF n < 0 THEN 0 ELSE n

\* C6: a similarity query returns at most top_k matches, nearest first,
\* nothing when top_k <= 0, and every entry when top_k exceeds the index size.
C6_QueryBounded ==
    lastQuery.called =>
        /\ Len(lastQuery.result) <= AtMost(lastQuery.top_k)
        /\ lastQuery.top_k <= 0 => lastQuery.result = <<>>
        /\ lastQuery.top_k > lastQuery.ntotal => Len(lastQuery.result) = lastQuery.ntotal
        /\ \A i, j \in DOMAIN lastQuery.result :
              i < j => lastQuery.result[i].similarity >= lastQuery.result[j].similarity

\* C7: a query of an index that holds no entries returns the empty sequence.
C7_EmptyIndexEmptyResult ==
    (lastQuery.called /\ lastQuery.ntotal = 0) => lastQuery.result = <<>>

\* C8: store_incident appends: after any calls the index holds, for every
\* incident_id, one entry per call made for it, and as many vectors as
\* metadata entries were added.
C8_StoreAppends ==
    \A id \in IncidentIds : Cardinality(StoredRecords(id)) = storeCalls[id]

SameKey(a, b) == a.incident_id = b.incident_id /\ a.fix_type = b.fix_type

\* C9: two answered remediation requests with auto_approve and the same
\* (incident_id, fix_type) get the identical response, and the fix was
\* executed exactly once for that key.
C9_ApplyIdempotent ==
    \A i, j \in DOMAIN remLog :
        (remLog[i].auto_approve /\ remLog[j].auto_approve /\ SameKey(remLog[i], remLog[j])) =>
            /\ remLog[i].response = remLog[j].response
            /\ sideEffects[<<remLog[i].incident_id, remLog[i].fix_type>>] = 1
            /\ i < j => ~ remLog[j].executed

C9_Witness ==
    \E i, j \in DOMAIN remLog :
        /\ i < j
        /\ remLog[i].auto_approve /\ remLog[j].auto_approve
        /\ SameKey(remLog[i], remLog[j])
        /\ remLog[i].executed
        /\ remLog[j].response.status = "applied"

\* C10: a remediation response says "applied" exactly when apply_fix was
\* called and "pending_approval" exactly when create_pull_request was called;
\* apply_fix is called only with auto_approve, and no fix is executed for a
\* key that no auto_approve request named.
C10_ModeReported ==
    /\ \A i \in DOMAIN remLog :
          /\ remLog[i].response.status \in {"applied", "pending_approval"}
          /\ remLog[i].response.status = "applied" <=> remLog[i].called = "apply_fix"
          /\ remLog[i].response.status = "pending_approval"
                <=> remLog[i].called = "create_pull_request"
          /\ remLog[i].called = "apply_fix" <=> remLog[i].auto_approve
          /\ remLog[i].executed => remLog[i].auto_approve
    /\ \A key \in RemediationKeys :
          sideEffects[key] > 0 =>
              \E i \in DOMAIN remLog :
                  /\ remLog[i].auto_approve
                  /\ <<remLog[i].incident_id, remLog[i].fix_type>> = key

C10_Witness ==
    \E i, j \in DOMAIN remLog :
        /\ SameKey(remLog[i], remLog[j])
        /\ remLog[i].response.status = "applied"
        /\ remLog[i].executed
        /\ remLog[j].response.status = "pending_approval"
        /\ ~ remLog[j].auto_approve

\* the bounds the specification gives each metric: percentages in [0,100],
\* every other metric non-negative
Clamp(name, v) ==
    IF name \in {"cpu_usage", "memory_usage"}
    THEN (IF v < 0 THEN 0 ELSE IF v > 100 THEN 100 ELSE v)
    ELSE (IF v < 0 THEN 0 ELSE v)

\* C11: _prepare_features yields one vector per sample in the same order,
\* each of the seven features in the fixed order, a missing metric as 0 and
\* a value outside its bounds clamped into them.
C11_FeaturesClamped ==
    predPc = "prepared" =>
        /\ Len(features) = Len(metrics_data)
        /\ \A i \in DOMAIN features :
              /\ Len(features[i]) = Len(FeatureNames)
              /\ \A j \in DOMAIN FeatureNames :
                    features[i][j] =
                        IF FeatureNames[j] \in DOMAIN metrics_data[i]
                        THEN Clamp(FeatureNames[j], metrics_data[i][FeatureNames[j]])
                        ELSE 0

\* the parts of a recommendation string
Parts(recommendation) == {recommendation[k] : k \in DOMAIN recommendation}

\* C12: in every verdict predict returns, a normal sample carries exactly the
\* fixed "No action required" message; an anomalous sample never carries it,
\* and carries the memory advice whenever its memory_usage is above the
\* high-memory threshold.
C12_RecommendationMatchesVerdict ==
    predResponse.kind = "returned" =>
        \A i \in DOMAIN predResponse.results :
            LET v == predResponse.results[i]
            IN  /\ ~ v.is_anomaly => v.recommendation = <<NoAction>>
                /\ v.is_anomaly =>
                      /\ NoAction \notin Parts(v.recommendation)
                      /\ v.metrics.memory_usage > MemoryThreshold
                            => MemoryAdvice \in Parts(v.recommendation)

C12_Witness ==
    /\ predResponse.kind = "returned"
    /\ \E i \in DOMAIN predResponse.results :
          /\ predResponse.results[i].is_anomaly
          /\ predResponse.results[i].metrics.cpu_usage > CpuThreshold
          /\ predResponse.results[i].metrics.memory_usage > MemoryThreshold
          /\ MemoryAdvice \in Parts(predResponse.results[i].recommendation)

\* the predictor as constructed cannot score seven-column features
Unusable ==
    \/ ~ scaler.fitted
    \/ ~ model.fitted
    \/ scaler.n_features # Len(FeatureNames)
    \/ model.n_features # Len(FeatureNames)

\* C13: as long as the predictor is the one constructed without a model
\* file, or from a model fitted on another number of columns, a predict call
\* never returns a results list, and the failure it ends with is the
\* model-not-ready failure.
C13_UnusableModelNoVerdicts ==
    (numTrains = 0 /\ Unusable) =>
        /\ predPc # "done"
        /\ predResponse.kind # "returned"
        /\ predPc = "failed" =>
              /\ predResponse.kind = "raised"
              /\ predResponse.exception = "ModelNotReadyError"

\* C16: every results list predict returns was computed with one pair: the
\* scaler that scaled the features and the model that gave the predictions
\* and the scores are of the same fit.
C16_ConsistentPair ==
    predResponse.kind = "returned" =>
        /\ used.scaler = used.predict
        /\ used.predict = used.score

\* the stages of one analyze request in the order the code runs them
StageOrder ==
    <<"RETRIEVING_SIMILAR", "BUILDING_CONTEXT", "REASONING", "VALIDATING",
      "GENERATING_FIX", "ASSEMBLING_TIMELINE", "PERSISTING", "RETURNING", "DONE">>

\* C14: within one analyze request every step goes from a stage to the next
\* stage of the fixed order or to FAILED, and FAILED is answered with the
\* failure response; once the request is DONE or FAILED nothing of it changes
\* any more, and the only way on is a new request starting at retrieval.
C14_StagesInOrder ==
    [][ /\ pc' # pc =>
             \/ /\ pc \in {"IDLE", "DONE", "FAILED"}
                /\ pc' = "RETRIEVING_SIMILAR"
                /\ numRequests' = numRequests + 1
             \/ /\ numRequests' = numRequests
                /\ \E k \in 1..(Len(StageOrder) - 1) :
                      /\ pc = StageOrder[k]
                      /\ pc' \in {StageOrder[k + 1], "FAILED"}
                /\ pc' = "FAILED" => response'.status = 500
                /\ pc' = "DONE" => response'.status = 200
        /\ (pc \in {"DONE", "FAILED"} /\ numRequests' = numRequests)
              => UNCHANGED analyzeVars
      ]_vars

C14_Witness ==
    /\ numRequests >= 2
    /\ pc = "DONE"
    /\ response.status = 200
    /\ \E id \in IncidentIds : storeCalls[id] > 0

\* C15: the reasoning service is called at most once per request, and the
\* call carries an explicit timeout (on the call or on the client).
C15_BoundedSingleCall ==
    /\ llmCalls <= 1
    /\ llmCalls >= 1 =>
          \/ "timeout" \in DOMAIN llmRequest
          \/ "timeout" \in DOMAIN ClientArgs

\* C19: every result RCAAgent.analyze returns has a severity among critical,
\* high, medium, low and a confidence within [0,1].
C19_ResultConformsToSchema ==
    rca_result # NoResult =>
        /\ rca_result.severity \in {"critical", "high", "medium", "low"}
        /\ rca_result.confidence \in 0..100

\* C20: the timeline of every successful response is the three events
\* "Incident detected" (at the request's timestamp), "RCA completed" and
\* "Fix generated", in that order, with non-decreasing times.
C20_TimelineOrdered ==
    response.status = 200 =>
        /\ Len(response.timeline) = 3
        /\ response.timeline[1] = [time |-> request.timestamp, event |-> "Incident detected"]
        /\ response.timeline[2].event = "RCA completed"
        /\ response.timeline[3].event = "Fix generated"
        /\ response.timeline[1].time <= response.timeline[2].time
        /\ response.timeline[2].time <= response.timeline[3].time

\* C17: index and metadata are a matching pair in memory, on disk, and in
\* whatever a process starting on the files gets: the two files are both
\* absent or both present with equally many entries, and a loader never
\* fails on or loads a half-written pair.
C17_MatchingPair ==
    /\ Len(index) = Len(metadata)
    /\ files.index.exists = files.meta.exists
    /\ files.index.exists =>
          /\ Complete(files.index) /\ Complete(files.meta)
          /\ Len(files.index.entries) = Len(files.meta.entries)
    /\ loader.pc # "failed"
    /\ loader.pc = "constructed" => Len(loader.index) = Len(loader.metadata)

Min(a, b) == IF a < b THEN a ELSE b

\* C18: every context built holds all the metrics, exactly the last
\* min(50, n) log lines in order, the first min(10, n) traces and the first
\* min(3, n) similar incidents, and the prompts built from the same arguments
\* are identical.
C18_ContextBoundedAndReproducible ==
    /\ \A i \in DOMAIN handed :
          LET c == handed[i].context
              n == Len(ctxInput.logs)
          IN  /\ c.metrics = ctxInput.metrics
              /\ Len(c.logs) = Min(ContextLogLines, n)
              /\ \A k \in DOMAIN c.logs : c.logs[k] = ctxInput.logs[n - Len(c.logs) + k]
              /\ Len(c.traces) = Min(ContextTraces, Len(ctxInput.traces))
              /\ \A k \in DOMAIN c.traces : c.traces[k] = ctxInput.traces[k]
              /\ Len(c.similar) = Min(ContextSimilar, Len(ctxInput.similar))
              /\ \A k \in DOMAIN c.similar :
                    c.similar[k].incident_id = ctxInput.similar[k].incident_id
    /\ \A i, j \in DOMAIN handed : handed[i].prompt = handed[j].prompt
====
